---- MODULE Spec2Model ----
(***************************************************************************)
(* A model of the Game Boy CPU core of teal-gameboy                        *)
(* (src/gameboy-emu/cpu.ts): the register file, the flag codec, the        *)
(* instruction handlers and the step dispatcher.                           *)
(*                                                                         *)
(* The processor is one record, cpu, with the fields of class CPU.  Every  *)
(* handler of the class is an operator from a processor record (and the    *)
(* handler's arguments) to the processor record the handler leaves; every  *)
(* action applies one handler, or step, to cpu.                            *)
(*                                                                         *)
(* JavaScript numbers are not confined to a width: a field holds whatever  *)
(* the code assigns, so the model keeps every value as an unbounded        *)
(* integer and wraps only where the code wraps (uint8, uint16, masks).     *)
(***************************************************************************)
EXTENDS Integers, Sequences, FiniteSets, TLC

(***************************************************************************)
(* Bounds of the model.                                                    *)
(***************************************************************************)
\* number of handler / step calls in a behaviour of Spec
MaxCalls == 2
\* number of step calls in a behaviour of SpecStep
MaxSteps == 3
\* length of the programs SpecStep places at address 0
ProgLen == 3

Byte == 0..255
Word == 0..65535

(***************************************************************************)
(* Bit operations of JavaScript on non-negative integers below 2^31.       *)
(***************************************************************************)
RECURSIVE BitAnd(_, _)
BitAnd(x, y) ==
    IF x = 0 \/ y = 0 THEN 0
    ELSE (IF x % 2 = 1 /\ y % 2 = 1 THEN 1 ELSE 0) + 2 * BitAnd(x \div 2, y \div 2)

RECURSIVE BitOr(_, _)
BitOr(x, y) ==
    IF x = 0 THEN y
    ELSE IF y = 0 THEN x
    ELSE (IF x % 2 = 1 \/ y % 2 = 1 THEN 1 ELSE 0) + 2 * BitOr(x \div 2, y \div 2)

RECURSIVE BitXor(_, _)
BitXor(x, y) ==
    IF x = 0 THEN y
    ELSE IF y = 0 THEN x
    ELSE (IF x % 2 # y % 2 THEN 1 ELSE 0) + 2 * BitXor(x \div 2, y \div 2)

\* x << n and x >> n
Shl(x, n) == x * (2 ^ n)
Shr(x, n) == x \div (2 ^ n)

(***************************************************************************)
(* ./utils : the numeric helpers cpu.ts imports.                           *)
(***************************************************************************)
uint8(x) == x % 256
uint16(x) == x % 65536
int8(x) == IF uint8(x) >= 128 THEN uint8(x) - 256 ELSE uint8(x)
addCarriesByte(a, b) == a + b > 255
addCarriesWord(a, b) == a + b > 65535
addHalfCarriesByte(a, b, c) == (a % 16) + (b % 16) + c > 15
subHalfCarriesByte(a, b, c) == (a % 16) - (b % 16) - c < 0
addHalfCarriesWord(a, b) == (a % 4096) + (b % 4096) > 4095

(***************************************************************************)
(* The register names.                                                     *)
(***************************************************************************)
R8 == {"A", "B", "C", "D", "E", "H", "L"}
R16 == {"AF", "BC", "DE", "HL", "SP"}

(***************************************************************************)
(* ./mmu : the memory interface.  The memory is a sparse map from the      *)
(* addresses that hold something to their bytes; every other address       *)
(* reads as 0.  Words are little-endian.                                   *)
(***************************************************************************)
rb(s, addr) == IF addr \in DOMAIN s.mmu THEN s.mmu[addr] ELSE 0
rw(s, addr) == rb(s, addr) + 256 * rb(s, addr + 1)
wb(s, addr, val) ==
    [s EXCEPT !.mmu = [a \in (DOMAIN s.mmu) \cup {addr} |->
                          IF a = addr THEN val ELSE s.mmu[a]]]
ww(s, addr, val) == wb(wb(s, addr, val % 256), addr + 1, (val \div 256) % 256)

(***************************************************************************)
(* class CPU: the fields and their initial values.                         *)
(***************************************************************************)
NoFlags == [z |-> FALSE, n |-> FALSE, h |-> FALSE, c |-> FALSE]

NewCPU(mmu) ==
    [A |-> 0, B |-> 0, C |-> 0, D |-> 0, E |-> 0, H |-> 0, L |-> 0,
     F |-> NoFlags,
     SP |-> 0, PC |-> 0,
     halted |-> FALSE, stopped |-> FALSE,
     jumped |-> FALSE,
     ime |-> FALSE, setIMENext |-> FALSE,
     mmu |-> mmu]

\* F.toUint8
toUint8(F) ==
    (IF F.z THEN 128 ELSE 0) + (IF F.n THEN 64 ELSE 0)
      + (IF F.h THEN 32 ELSE 0) + (IF F.c THEN 16 ELSE 0)

getR8(s, reg8) == s[reg8]

setR8(s, reg8, val) == [s EXCEPT ![reg8] = val]

getAF(s) == BitOr(Shl(s.A, 8), toUint8(s.F))
getBC(s) == BitOr(Shl(s.B, 8), s.C)
getDE(s) == BitOr(Shl(s.D, 8), s.E)
getHL(s) == BitOr(Shl(s.H, 8), s.L)

\* word & 0xFF00 >> 8 is word & (0xFF00 >> 8): the shift binds tighter
setBC(s, word) ==
    [s EXCEPT !.B = BitAnd(word, Shr(65280, 8)), !.C = BitAnd(word, 255)]
setDE(s, word) ==
    [s EXCEPT !.D = BitAnd(word, Shr(65280, 8)), !.E = BitAnd(word, 255)]
setHL(s, word) ==
    [s EXCEPT !.H = BitAnd(word, Shr(65280, 8)), !.L = BitAnd(word, 255)]

getR16(s, reg16) ==
    CASE reg16 = "AF" -> getAF(s)
      [] reg16 = "BC" -> getBC(s)
      [] reg16 = "DE" -> getDE(s)
      [] reg16 = "HL" -> getHL(s)
      [] reg16 = "SP" -> s.SP

\* case AF only warns and falls through to case BC
setR16(s, reg16, val) ==
    CASE reg16 = "AF" -> setBC(s, val)
      [] reg16 = "BC" -> setBC(s, val)
      [] reg16 = "DE" -> setDE(s, val)
      [] reg16 = "HL" -> setHL(s, val)
      [] reg16 = "SP" -> [s EXCEPT !.SP = val]

\* nextByte and nextWord: the processor they leave, and the value they return
nextByte(s) ==
    LET t == [s EXCEPT !.PC = s.PC + 1]
    IN  [cpu |-> t, val |-> rb(t, t.PC)]

nextWord(s) ==
    LET t == [s EXCEPT !.PC = s.PC + 1]
    IN  [cpu |-> [t EXCEPT !.PC = t.PC + 1], val |-> rw(t, t.PC)]

(***************************************************************************)
(* Opcode helper instructions: the handlers of class CPU.                  *)
(***************************************************************************)
\* INC r8 [z0h-]
inc_r8(s, reg8) ==
    LET val == getR8(s, reg8)
        newVal == uint8(val + 1)
        t == setR8(s, reg8, newVal)
    IN  [t EXCEPT !.F.z = (newVal = 0), !.F.n = FALSE,
                  !.F.h = addHalfCarriesByte(val, 1, 0)]

\* DEC r8 [z1h-]
dec_r8(s, reg8) ==
    LET val == getR8(s, reg8)
        newVal == uint8(val - 1)
        t == setR8(s, reg8, newVal)
    IN  [t EXCEPT !.F.z = (newVal = 0), !.F.n = TRUE,
                  !.F.h = subHalfCarriesByte(val, 1, 0)]

\* INC r16 [----]
inc_r16(s, reg16) == setR16(s, reg16, getR16(s, reg16) + 1)

\* LD r8 d8 [----]
ld_r8_d8(s, reg8) ==
    LET t == [s EXCEPT !.PC = s.PC + 1]
        d8 == rb(t, t.PC)
    IN  setR8(t, reg8, d8)

\* RLCA [000c]
rlc_A(s) ==
    LET carry == BitAnd(s.A, 128) # 0
        a == IF carry THEN BitOr(Shl(s.A, 1), 1) ELSE Shl(s.A, 1)
    IN  [s EXCEPT !.A = a, !.F.c = carry,
                  !.F.z = FALSE, !.F.n = FALSE, !.F.h = FALSE]

\* rrc_A that tests bit 7, as rlc_A does, instead of bit 0
rrc_A_testsBit7(s) ==
    LET carry == BitAnd(s.A, 128) # 0
        a == IF carry THEN BitOr(Shr(s.A, 1), 128) ELSE Shr(s.A, 1)
    IN  [s EXCEPT !.A = a, !.F.c = carry,
                  !.F.z = FALSE, !.F.n = FALSE, !.F.h = FALSE]

\* RRCA [000c]
rrc_A(s) ==
    LET carry == BitAnd(s.A, 1) # 0
        a == IF carry THEN BitOr(Shr(s.A, 1), 128) ELSE Shr(s.A, 1)
    IN  [s EXCEPT !.A = a, !.F.c = carry,
                  !.F.z = FALSE, !.F.n = FALSE, !.F.h = FALSE]

\* LD (a16) SP [----]
ld_a16_SP(s) ==
    LET t == [s EXCEPT !.PC = s.PC + 1]
        a16 == rw(t, t.PC)
        u == [t EXCEPT !.PC = t.PC + 1]
    IN  ww(u, a16, u.SP)

\* LD SP d16 [----]
ld_SP_d16(s) ==
    LET t == [s EXCEPT !.PC = s.PC + 1]
        d16 == rw(t, t.PC)
        u == [t EXCEPT !.PC = t.PC + 1]
    IN  [u EXCEPT !.SP = d16]

\* ADD HL r16 [-0hc]
add_HL_r16(s, reg16) ==
    LET val == getR16(s, reg16)
        hl == getHL(s)
        newVal == uint16(hl + val)
        t == setHL(s, newVal)
    IN  [t EXCEPT !.F.n = FALSE,
                  !.F.h = addHalfCarriesWord(hl, val),
                  !.F.c = addCarriesWord(hl, val)]

\* DEC r16 [----]
dec_r16(s, reg16) == setR16(s, reg16, uint16(getR16(s, reg16) - 1))

\* LD r16 d16 [----]
ld_r16_d16(s, reg16) ==
    LET t == [s EXCEPT !.PC = s.PC + 1]
        d16 == rw(t, t.PC)
        u == [t EXCEPT !.PC = t.PC + 1]
    IN  setR16(u, reg16, d16)

\* LD (r16) A [----]
ld_valr16_A(s, reg16) == wb(s, getR16(s, reg16), s.A)

\* LD (HL+) A [----]
ld_valHLinc_A(s) ==
    LET hl == getHL(s)
    IN  setHL(wb(s, hl, s.A), uint16(hl + 1))

\* LD A (HL-) [----]
ld_A_valHLdec(s) ==
    LET hl == getHL(s)
    IN  setHL([s EXCEPT !.A = rb(s, hl)], uint16(hl - 1))

\* LD (HL-) A [----]
ld_valHLdec_A(s) ==
    LET hl == getHL(s)
    IN  setHL(wb(s, hl, s.A), uint16(hl - 1))

\* LD A (HL+) [----]
ld_A_valHLinc(s) ==
    LET hl == getHL(s)
    IN  setHL([s EXCEPT !.A = rb(s, hl)], uint16(hl + 1))

\* LD (HL) d8 [----]
ld_valHL_d8(s) ==
    LET t == [s EXCEPT !.PC = s.PC + 1]
        d8 == rb(t, t.PC)
    IN  wb(t, getHL(t), d8)

\* LD r8 (HL) [----]
ld_r8_valHL(s, reg8) == setR8(s, reg8, rb(s, getHL(s)))

\* LD (HL) r8 [----]
ld_valHL_r8(s, reg8) == wb(s, getHL(s), getR8(s, reg8))

\* INC (HL) [z0h-]
inc_valHL(s) ==
    LET hl == getHL(s)
        byte == rb(s, hl)
        newByte == uint8(byte + 1)
        t == wb(s, hl, newByte)
    IN  [t EXCEPT !.F.z = (newByte = 0), !.F.n = FALSE,
                  !.F.h = addHalfCarriesByte(byte, 1, 0)]

\* DEC (HL) [z1h-]
dec_valHL(s) ==
    LET hl == getHL(s)
        byte == rb(s, hl)
        newByte == uint8(byte - 1)
        t == wb(s, hl, newByte)
    IN  [t EXCEPT !.F.z = (newByte = 0), !.F.n = TRUE,
                  !.F.h = subHalfCarriesByte(byte, 1, 0)]

\* RLA [000c]
rl_A(s) ==
    LET oldCarry == IF s.F.c THEN 1 ELSE 0
    IN  [s EXCEPT !.F.c = (BitAnd(s.A, 128) # 0),
                  !.A = BitOr(Shl(s.A, 1), oldCarry),
                  !.F.z = FALSE, !.F.n = FALSE, !.F.h = FALSE]

\* RRA [000c]
rr_A(s) ==
    LET oldCarry == IF s.F.c THEN 1 ELSE 0
    IN  [s EXCEPT !.F.c = (BitAnd(s.A, 1) # 0),
                  !.A = BitOr(Shr(s.A, 1), Shl(oldCarry, 7)),
                  !.F.z = FALSE, !.F.n = FALSE, !.F.h = FALSE]

\* JR int8 [----]
jr_int8(s) ==
    LET t == [s EXCEPT !.PC = s.PC + 1]
        i8 == int8(rb(t, t.PC))
    IN  [t EXCEPT !.PC = uint16(t.PC + i8)]

\* add with the half carry taken from the accumulator after the addition
add_halfCarryOfResult(s, byte) ==
    LET a == uint8(s.A + byte)
    IN  [s EXCEPT !.A = a, !.F.z = (a = 0), !.F.n = FALSE,
                  !.F.h = addHalfCarriesByte(a, byte, 0),
                  !.F.c = addCarriesByte(s.A, byte)]

\* ADD A {r8, d8} [z0hc]
add(s, byte) ==
    LET oldA == s.A
        a == uint8(s.A + byte)
    IN  [s EXCEPT !.A = a, !.F.z = (a = 0), !.F.n = FALSE,
                  !.F.h = addHalfCarriesByte(oldA, byte, 0),
                  !.F.c = addCarriesByte(oldA, byte)]

\* ADC A {r8, d8} [z0hc]
adc(s, val) ==
    LET carry == IF s.F.c THEN 1 ELSE 0
        oldA == s.A
        a == uint8(s.A + val + carry)
    IN  [s EXCEPT !.A = a, !.F.z = (a = 0), !.F.n = FALSE,
                  !.F.h = addHalfCarriesByte(oldA, val, carry),
                  !.F.c = addCarriesByte(oldA, val + carry)]

\* SUB A {r8, d8} [z1hc]
\* F.n is assigned twice: true, then the half borrow; F.h is not assigned
sub(s, val) ==
    LET oldA == s.A
        a == uint8(s.A - val)
    IN  [s EXCEPT !.A = a, !.F.z = (a = 0),
                  !.F.n = subHalfCarriesByte(oldA, val, 0),
                  !.F.c = (oldA - val < 0)]

sbc(s, val) ==
    LET carry == IF s.F.c THEN 1 ELSE 0
        oldA == s.A
        a == uint8(s.A - val - carry)
    IN  [s EXCEPT !.A = a, !.F.z = (a = 0), !.F.n = TRUE,
                  !.F.h = subHalfCarriesByte(oldA, val, carry),
                  !.F.c = (oldA - val - carry < 0)]

\* AND A r8 [z010]
and(s, val) ==
    LET a == BitAnd(s.A, val)
    IN  [s EXCEPT !.A = a, !.F.z = (a = 0), !.F.n = FALSE,
                  !.F.h = TRUE, !.F.c = FALSE]

\* XOR A r8 [z010]: the body is A | val
xor(s, val) ==
    LET a == BitOr(s.A, val)
    IN  [s EXCEPT !.A = a, !.F.z = (a = 0), !.F.n = FALSE,
                  !.F.h = TRUE, !.F.c = FALSE]

\* OR A r8 [z000]
or(s, val) ==
    LET a == BitOr(s.A, val)
    IN  [s EXCEPT !.A = a, !.F.z = (a = 0), !.F.n = FALSE,
                  !.F.h = FALSE, !.F.c = FALSE]

\* CP A r8 [z1hc]
cp(s, val) ==
    LET result == s.A - val
    IN  [s EXCEPT !.F.z = (result = 0), !.F.n = TRUE,
                  !.F.h = subHalfCarriesByte(s.A, val, 0),
                  !.F.c = (s.A - val < 0)]

\* daa that looks only at the flags of the last operation, not at the nibbles
daa_flagsOnly(s) ==
    LET u1 == IF s.F.h THEN 6 ELSE 0
        hi == s.F.c
        u == IF hi THEN BitOr(u1, 96) ELSE u1
        a == IF s.F.n THEN uint8(s.A - u) ELSE uint8(s.A + u)
    IN  [s EXCEPT !.A = a, !.F.c = IF hi THEN TRUE ELSE s.F.c,
                  !.F.z = (a = 0), !.F.h = FALSE]

\* DAA [z-0c]
daa(s) ==
    LET u1 == IF s.F.h \/ (~s.F.n /\ BitAnd(s.A, 15) > 9) THEN 6 ELSE 0
        hi == s.F.c \/ (~s.F.n /\ s.A > 153)
        u == IF hi THEN BitOr(u1, 96) ELSE u1
        a == IF s.F.n THEN uint8(s.A - u) ELSE uint8(s.A + u)
    IN  [s EXCEPT !.A = a, !.F.c = IF hi THEN TRUE ELSE s.F.c,
                  !.F.z = (a = 0), !.F.h = FALSE]

\* CPL [-11-]
cpl(s) == [s EXCEPT !.A = BitXor(s.A, 255), !.F.n = TRUE, !.F.h = TRUE]

\* SCF [-001]
scf(s) == [s EXCEPT !.F.n = FALSE, !.F.h = FALSE, !.F.c = TRUE]

\* CCF [-00c]
ccf(s) == [s EXCEPT !.F.n = FALSE, !.F.h = FALSE, !.F.c = ~s.F.c]

(***************************************************************************)
(* ./opcodes/opcodes and CPU.execute : the opcode metadata and the         *)
(* dispatch from an opcode to its handler.  The byte signatures and the    *)
(* cycle costs are those of instructions_reference.txt.                    *)
(***************************************************************************)
NOP == 0
EI == 251
DI == 243
PREFIX == 203

\* the opcodes that have a handler, none of them prefixed
Opcodes ==
    {0, 1, 3, 4, 5, 6, 7, 8, 9, 11, 15, 23, 24, 31, 32, 39, 40, 47, 48, 49,
     51, 55, 56, 59, 60, 61, 62, 63, 128, 144, 160, 168, 176, 184, 198,
     243, 251}

Mapped(opcode, prefixed) == ~prefixed /\ opcode \in Opcodes

\* the base cost
cycles(opcode) ==
    CASE opcode \in {1, 24, 32, 40, 48, 49, 56} -> 12
      [] opcode \in {3, 6, 9, 11, 51, 59, 62, 198} -> 8
      [] opcode = 8 -> 20
      [] OTHER -> 4

\* the cost of a conditional branch that is not taken; 0 when there is none
cyclesIfNoJump(opcode) == IF opcode \in {32, 40, 48, 56} THEN 8 ELSE 0

\* jr f,PC+dd: the relative jump when the condition holds, marking the branch
\* as taken; otherwise the displacement byte is skipped
jr_cc(s, cond) ==
    IF cond THEN [jr_int8(s) EXCEPT !.jumped = TRUE]
    ELSE [s EXCEPT !.PC = uint16(s.PC + 1)]

\* ei: the enable is pending; di: interrupts are off at once
ei(s) == [s EXCEPT !.setIMENext = TRUE]
di(s) == [s EXCEPT !.ime = FALSE]

execute(s, opcode, prefixed) ==
    LET r == CASE opcode = 0 -> s
               [] opcode = 1 -> ld_r16_d16(s, "BC")
               [] opcode = 3 -> inc_r16(s, "BC")
               [] opcode = 4 -> inc_r8(s, "B")
               [] opcode = 5 -> dec_r8(s, "B")
               [] opcode = 6 -> ld_r8_d8(s, "B")
               [] opcode = 7 -> rlc_A(s)
               [] opcode = 8 -> ld_a16_SP(s)
               [] opcode = 9 -> add_HL_r16(s, "BC")
               [] opcode = 11 -> dec_r16(s, "BC")
               [] opcode = 15 -> rrc_A(s)
               [] opcode = 23 -> rl_A(s)
               [] opcode = 24 -> [jr_int8(s) EXCEPT !.jumped = TRUE]
               [] opcode = 31 -> rr_A(s)
               [] opcode = 32 -> jr_cc(s, ~s.F.z)
               [] opcode = 39 -> daa(s)
               [] opcode = 40 -> jr_cc(s, s.F.z)
               [] opcode = 47 -> cpl(s)
               [] opcode = 48 -> jr_cc(s, ~s.F.c)
               [] opcode = 49 -> ld_SP_d16(s)
               [] opcode = 51 -> inc_r16(s, "SP")
               [] opcode = 55 -> scf(s)
               [] opcode = 56 -> jr_cc(s, s.F.c)
               [] opcode = 59 -> dec_r16(s, "SP")
               [] opcode = 60 -> inc_r8(s, "A")
               [] opcode = 61 -> dec_r8(s, "A")
               [] opcode = 62 -> ld_r8_d8(s, "A")
               [] opcode = 63 -> ccf(s)
               [] opcode = 128 -> add(s, s.B)
               [] opcode = 144 -> sub(s, s.B)
               [] opcode = 160 -> and(s, s.B)
               [] opcode = 168 -> xor(s, s.B)
               [] opcode = 176 -> or(s, s.B)
               [] opcode = 184 -> cp(s, s.B)
               [] opcode = 198 -> add(nextByte(s).cpu, nextByte(s).val)
               [] opcode = 243 -> di(s)
               [] opcode = 251 -> ei(s)
    IN  \* a control transfer has set PC; otherwise PC moves to the next opcode
        IF r.jumped THEN r ELSE [r EXCEPT !.PC = uint16(r.PC + 1)]

(***************************************************************************)
(* CPU.step: executes the next instruction and returns the number of       *)
(* cycles consumed.  fetched(s) is the processor, the opcode and the       *)
(* prefix marker at the call of execute.                                   *)
(***************************************************************************)
fetched(s) ==
    LET t == [s EXCEPT !.jumped = FALSE]
        first == rb(t, t.PC)
        prefixed == (first = PREFIX)
        u == IF prefixed THEN [t EXCEPT !.PC = t.PC + 1] ELSE t
    IN  [cpu |-> u, opcode |-> IF prefixed THEN rb(u, u.PC) ELSE first,
         prefixed |-> prefixed]

\* step without the test of the branch-taken marker
step_ignoresJumped(s) ==
    LET f == fetched(s)
        v == execute(f.cpu, f.opcode, f.prefixed)
    IN  [cpu |-> v,
         ret |-> IF cyclesIfNoJump(f.opcode) # 0 THEN cyclesIfNoJump(f.opcode)
                 ELSE cycles(f.opcode)]

step(s) ==
    LET f == fetched(s)
        v == execute(f.cpu, f.opcode, f.prefixed)
    IN  [cpu |-> v,
         ret |-> IF v.jumped THEN cycles(f.opcode)
                 ELSE IF cyclesIfNoJump(f.opcode) # 0 THEN cyclesIfNoJump(f.opcode)
                 ELSE cycles(f.opcode)]

(***************************************************************************)
(* The state: the processor, and a record of the last call made on it.     *)
(*   last.op       the handler called, "step", "fault" or "init"           *)
(*   last.reg      its register argument, "-" when it has none             *)
(*   last.val      its numeric argument, 0 when it has none                *)
(*   last.pre      the processor before the call                           *)
(*   last.ret      what step returned                                      *)
(*   last.opcode   the opcode step executed, -1 for any other call         *)
(*   last.exec     the processor step handed to execute                    *)
(*   last.prev     last.opcode of the call before                          *)
(*   last.prevIme  the interrupt master enable before the call before      *)
(*   last.prevOp, last.prevVal, last.prevPre                               *)
(*                 last.op, last.val and last.pre of the call before       *)
(*   calls         the number of calls made                                *)
(***************************************************************************)
VARIABLES cpu, last, calls

vars == <<cpu, last, calls>>

NoCall(s) ==
    [op |-> "init", reg |-> "-", val |-> 0, pre |-> s, ret |-> 0,
     opcode |-> -1, exec |-> s, prev |-> -1, prevIme |-> s.ime,
     prevOp |-> "init", prevVal |-> 0, prevPre |-> s]

\* a call of a handler that left the processor t
Called(op, reg, val, t) ==
    /\ cpu' = t
    /\ last' = [op |-> op, reg |-> reg, val |-> val, pre |-> cpu, ret |-> 0,
                opcode |-> -1, exec |-> cpu, prev |-> last.opcode,
                prevIme |-> last.pre.ime,
                prevOp |-> last.op, prevVal |-> last.val, prevPre |-> last.pre]
    /\ calls' = calls + 1

\* a call of step on a mapped opcode
Stepped ==
    LET f == fetched(cpu)
    IN  /\ Mapped(f.opcode, f.prefixed)
        /\ cpu' = step(cpu).cpu
        /\ last' = [op |-> "step", reg |-> "-", val |-> 0, pre |-> cpu,
                    ret |-> step(cpu).ret, opcode |-> f.opcode, exec |-> f.cpu,
                    prev |-> last.opcode, prevIme |-> last.pre.ime,
                prevOp |-> last.op, prevVal |-> last.val, prevPre |-> last.pre]
        /\ calls' = calls + 1

\* a call of step on an opcode without a handler: the call throws and leaves
\* the processor as the fetch left it
Faulted ==
    LET f == fetched(cpu)
    IN  /\ ~Mapped(f.opcode, f.prefixed)
        /\ cpu' = f.cpu
        /\ last' = [op |-> "fault", reg |-> "-", val |-> 0, pre |-> cpu,
                    ret |-> 0, opcode |-> -1, exec |-> f.cpu,
                    prev |-> last.opcode, prevIme |-> last.pre.ime,
                prevOp |-> last.op, prevVal |-> last.val, prevPre |-> last.pre]
        /\ calls' = calls + 1

\* a memory that holds the bytes of prog from address 0 on
Image(prog) == [a \in 0..(Len(prog) - 1) |-> prog[a + 1]]

(***************************************************************************)
(* Spec: any sequence of handler calls and step calls on a new processor.  *)
(* The operands of the arithmetic handlers come from Inputs; the bytes a   *)
(* handler reads come from the memory, one of Images.                      *)
(***************************************************************************)
\* the operands tried
Inputs == {0, 1, 15, 46, 128, 255}

\* the memories tried
Images ==
    {Image(<<62, 128, 7>>), Image(<<24, 254, 0>>),
     Image(<<251, 0, 1>>), Image(<<1, 52, 18>>)}

Init ==
    /\ \E m \in Images : cpu = NewCPU(m)
    /\ last = NoCall(cpu)
    /\ calls = 0

More == calls < MaxCalls

Do_nextByte == More /\ Called("nextByte", "-", 0, nextByte(cpu).cpu)
Do_nextWord == More /\ Called("nextWord", "-", 0, nextWord(cpu).cpu)
Do_inc_r8 == More /\ \E r \in R8 : Called("inc_r8", r, 0, inc_r8(cpu, r))
Do_dec_r8 == More /\ \E r \in R8 : Called("dec_r8", r, 0, dec_r8(cpu, r))
Do_inc_r16 == More /\ \E r \in R16 : Called("inc_r16", r, 0, inc_r16(cpu, r))
Do_dec_r16 == More /\ \E r \in R16 : Called("dec_r16", r, 0, dec_r16(cpu, r))
Do_ld_r8_d8 == More /\ \E r \in R8 : Called("ld_r8_d8", r, 0, ld_r8_d8(cpu, r))
Do_rlc_A == More /\ Called("rlc_A", "-", 0, rlc_A(cpu))
Do_rrc_A == More /\ Called("rrc_A", "-", 0, rrc_A(cpu))
Do_ld_a16_SP == More /\ Called("ld_a16_SP", "-", 0, ld_a16_SP(cpu))
Do_ld_SP_d16 == More /\ Called("ld_SP_d16", "-", 0, ld_SP_d16(cpu))
Do_add_HL_r16 == More /\ \E r \in R16 : Called("add_HL_r16", r, 0, add_HL_r16(cpu, r))
Do_ld_r16_d16 == More /\ \E r \in R16 : Called("ld_r16_d16", r, 0, ld_r16_d16(cpu, r))
Do_ld_valr16_A == More /\ \E r \in R16 : Called("ld_valr16_A", r, 0, ld_valr16_A(cpu, r))
Do_ld_valHLinc_A == More /\ Called("ld_valHLinc_A", "-", 0, ld_valHLinc_A(cpu))
Do_ld_A_valHLdec == More /\ Called("ld_A_valHLdec", "-", 0, ld_A_valHLdec(cpu))
Do_ld_valHLdec_A == More /\ Called("ld_valHLdec_A", "-", 0, ld_valHLdec_A(cpu))
Do_ld_A_valHLinc == More /\ Called("ld_A_valHLinc", "-", 0, ld_A_valHLinc(cpu))
Do_ld_valHL_d8 == More /\ Called("ld_valHL_d8", "-", 0, ld_valHL_d8(cpu))
Do_ld_r8_valHL == More /\ \E r \in R8 : Called("ld_r8_valHL", r, 0, ld_r8_valHL(cpu, r))
Do_ld_valHL_r8 == More /\ \E r \in R8 : Called("ld_valHL_r8", r, 0, ld_valHL_r8(cpu, r))
Do_inc_valHL == More /\ Called("inc_valHL", "-", 0, inc_valHL(cpu))
Do_dec_valHL == More /\ Called("dec_valHL", "-", 0, dec_valHL(cpu))
Do_rl_A == More /\ Called("rl_A", "-", 0, rl_A(cpu))
Do_rr_A == More /\ Called("rr_A", "-", 0, rr_A(cpu))
Do_jr_int8 == More /\ Called("jr_int8", "-", 0, jr_int8(cpu))
Do_add == More /\ \E v \in Inputs : Called("add", "-", v, add(cpu, v))
Do_adc == More /\ \E v \in Inputs : Called("adc", "-", v, adc(cpu, v))
Do_sub == More /\ \E v \in Inputs : Called("sub", "-", v, sub(cpu, v))
Do_sbc == More /\ \E v \in Inputs : Called("sbc", "-", v, sbc(cpu, v))
Do_and == More /\ \E v \in Inputs : Called("and", "-", v, and(cpu, v))
Do_xor == More /\ \E v \in Inputs : Called("xor", "-", v, xor(cpu, v))
Do_or == More /\ \E v \in Inputs : Called("or", "-", v, or(cpu, v))
Do_cp == More /\ \E v \in Inputs : Called("cp", "-", v, cp(cpu, v))
Do_daa == More /\ Called("daa", "-", 0, daa(cpu))
Do_cpl == More /\ Called("cpl", "-", 0, cpl(cpu))
Do_scf == More /\ Called("scf", "-", 0, scf(cpu))
Do_ccf == More /\ Called("ccf", "-", 0, ccf(cpu))
Do_step == More /\ Stepped
Do_fault == More /\ Faulted

Next ==
    \/ Do_nextByte \/ Do_nextWord
    \/ Do_inc_r8 \/ Do_dec_r8 \/ Do_inc_r16 \/ Do_dec_r16
    \/ Do_ld_r8_d8 \/ Do_rlc_A \/ Do_rrc_A \/ Do_ld_a16_SP \/ Do_ld_SP_d16
    \/ Do_add_HL_r16 \/ Do_ld_r16_d16 \/ Do_ld_valr16_A
    \/ Do_ld_valHLinc_A \/ Do_ld_A_valHLdec \/ Do_ld_valHLdec_A
    \/ Do_ld_A_valHLinc \/ Do_ld_valHL_d8 \/ Do_ld_r8_valHL
    \/ Do_ld_valHL_r8 \/ Do_inc_valHL \/ Do_dec_valHL
    \/ Do_rl_A \/ Do_rr_A \/ Do_jr_int8
    \/ Do_add \/ Do_adc \/ Do_sub \/ Do_sbc \/ Do_and \/ Do_xor \/ Do_or
    \/ Do_cp \/ Do_daa \/ Do_cpl \/ Do_scf \/ Do_ccf
    \/ Do_step \/ Do_fault

Spec == Init /\ [][Next]_vars

(***************************************************************************)
(* SpecStep: step calls on a new processor whose memory holds a program.   *)
(***************************************************************************)
\* the bytes the programs are made of
ProgBytes == {0, 1, 24, 32, 40, 60, 62, 203, 243, 251}

Programs == {Image(p) : p \in [1..ProgLen -> ProgBytes]}

InitStep ==
    /\ \E m \in Programs : cpu = NewCPU(m)
    /\ last = NoCall(cpu)
    /\ calls = 0

Run_step == calls < MaxSteps /\ Stepped
Run_fault == calls < MaxSteps /\ Faulted

NextStep == Run_step \/ Run_fault

SpecStep == InitStep /\ [][NextStep]_vars

(***************************************************************************)
(* SpecALU: one call of an 8-bit arithmetic or logic handler, for every    *)
(* accumulator and every operand byte.                                     *)
(***************************************************************************)
AllFlags == [z |-> TRUE, n |-> TRUE, h |-> TRUE, c |-> TRUE]

InitALU ==
    /\ \E a \in Byte, F \in {NoFlags, AllFlags} :
          cpu = [NewCPU(Image(<<>>)) EXCEPT !.A = a, !.F = F]
    /\ last = NoCall(cpu)
    /\ calls = 0

Alu_add == calls = 0 /\ \E v \in Byte : Called("add", "-", v, add(cpu, v))
Alu_sub == calls = 0 /\ \E v \in Byte : Called("sub", "-", v, sub(cpu, v))
Alu_and == calls = 0 /\ \E v \in Byte : Called("and", "-", v, and(cpu, v))
Alu_xor == calls = 0 /\ \E v \in Byte : Called("xor", "-", v, xor(cpu, v))
Alu_or == calls = 0 /\ \E v \in Byte : Called("or", "-", v, or(cpu, v))

\* daa, called right after add
Alu_daa == calls = 1 /\ last.op = "add" /\ Called("daa", "-", 0, daa(cpu))

\* rlc_A, and rrc_A called right after it
Alu_rlc_A == calls = 0 /\ Called("rlc_A", "-", 0, rlc_A(cpu))
Alu_rrc_A == calls = 1 /\ last.op = "rlc_A" /\ Called("rrc_A", "-", 0, rrc_A(cpu))

NextALU ==
    \/ Alu_add \/ Alu_sub \/ Alu_and \/ Alu_xor \/ Alu_or \/ Alu_daa
    \/ Alu_rlc_A \/ Alu_rrc_A

SpecALU == InitALU /\ [][NextALU]_vars

(***************************************************************************)
(* SpecR16: one 16-bit register write, increment or decrement on a         *)
(* processor one of whose 16-bit registers holds a word.                   *)
(***************************************************************************)
\* the 16-bit registers made of two 8-bit registers, and their halves
Pairs == {"BC", "DE", "HL"}
High(reg16) == CASE reg16 = "BC" -> "B" [] reg16 = "DE" -> "D" [] reg16 = "HL" -> "H"
Low(reg16) == CASE reg16 = "BC" -> "C" [] reg16 = "DE" -> "E" [] reg16 = "HL" -> "L"

\* the words tried
Words16 == {0, 1, 255, 256, 4660, 4863, 32768, 43981, 65520, 65535}

\* a processor whose register reg16 holds the word v
Holding(s, reg16, v) ==
    IF reg16 = "SP" THEN [s EXCEPT !.SP = v]
    ELSE [s EXCEPT ![High(reg16)] = v \div 256, ![Low(reg16)] = v % 256]

InitR16 ==
    /\ \E r \in Pairs \cup {"SP"}, v \in Words16, F \in {NoFlags, AllFlags} :
          cpu = Holding([NewCPU(Image(<<>>)) EXCEPT !.F = F], r, v)
    /\ last = NoCall(cpu)
    /\ calls = 0

R16_set == calls = 0 /\ \E r \in R16, v \in Words16 : Called("setR16", r, v, setR16(cpu, r, v))
R16_inc == calls = 0 /\ \E r \in R16 : Called("inc_r16", r, 0, inc_r16(cpu, r))
R16_dec == calls = 0 /\ \E r \in R16 : Called("dec_r16", r, 0, dec_r16(cpu, r))

NextR16 == R16_set \/ R16_inc \/ R16_dec

SpecR16 == InitR16 /\ [][NextR16]_vars

(***************************************************************************)
(* The properties.                                                         *)
(***************************************************************************)

\* C1: after any sequence of handler and step calls on a new processor,
\* every 8-bit register holds a value in 0..255 and SP and PC hold values in
\* 0..65535.
C1_RegistersInRange ==
    /\ \A r \in R8 : cpu[r] \in Byte
    /\ cpu.SP \in Word
    /\ cpu.PC \in Word

\* C2: writing a word v to BC, DE or HL sets the high register to
\* (v >> 8) & 0xFF and the low register to v & 0xFF, and reading the pair
\* afterwards returns v.
C2_PairWriteRead ==
    (last.op = "setR16" /\ last.reg \in Pairs) =>
        /\ cpu[High(last.reg)] = (last.val \div 256) % 256
        /\ cpu[Low(last.reg)] = last.val % 256
        /\ getR16(cpu, last.reg) = last.val

\* C3: a write of a word w to AF sets A to the high byte of w and the flags
\* z, n, h, c to bits 7, 6, 5, 4 of the low byte of w, and reading AF
\* afterwards returns w & 0xFFF0.
C3_WriteAF ==
    (last.op = "setR16" /\ last.reg = "AF") =>
        /\ cpu.A = (last.val \div 256) % 256
        /\ cpu.F.z = ((last.val \div 128) % 2 = 1)
        /\ cpu.F.n = ((last.val \div 64) % 2 = 1)
        /\ cpu.F.h = ((last.val \div 32) % 2 = 1)
        /\ cpu.F.c = ((last.val \div 16) % 2 = 1)
        /\ getR16(cpu, "AF") = last.val - (last.val % 16)

\* C4: step hands execute a processor whose branch-taken marker is clear, and
\* returns the base cost of the opcode when the handler set the marker or the
\* opcode has no alternate cost, and the alternate cost otherwise.
C4_CycleAccounting ==
    last.op = "step" =>
        /\ ~last.exec.jumped
        /\ last.ret = IF cpu.jumped \/ cyclesIfNoJump(last.opcode) = 0
                      THEN cycles(last.opcode)
                      ELSE cyclesIfNoJump(last.opcode)

\* a step that found the marker set by the step before, executed a
\* conditional branch that was not taken, and returned the alternate cost
C4_Witness ==
    /\ last.op = "step"
    /\ last.pre.jumped
    /\ cyclesIfNoJump(last.opcode) # 0
    /\ ~cpu.jumped
    /\ last.ret = 8

\* the number of operand bytes the handlers with immediate operands read
OperandBytes(op) ==
    CASE op \in {"ld_r8_d8", "ld_valHL_d8"} -> 1
      [] op \in {"ld_r16_d16", "ld_SP_d16", "ld_a16_SP"} -> 2

\* C5: a handler that reads immediate operand bytes returns with PC one
\* beyond, modulo 65536, the address of the last operand byte it read.
C5_PCPastOperands ==
    last.op \in {"ld_r8_d8", "ld_valHL_d8", "ld_r16_d16", "ld_SP_d16", "ld_a16_SP"} =>
        cpu.PC = (last.pre.PC + OperandBytes(last.op) + 1) % 65536

\* C6: when a step executes ei with interrupts disabled and the next step
\* executes nop, the interrupt master enable is false after the first step
\* and true after the second.
C6_EnableLatency ==
    (last.op = "step" /\ last.opcode = NOP /\ last.prev = EI /\ ~last.prevIme) =>
        /\ ~last.pre.ime
        /\ cpu.ime

\* C7: sub leaves A = (a - b) mod 256, the negative flag true, the carry flag
\* set iff a < b and the half-carry flag set iff the low nibble of a is less
\* than the low nibble of b.
C7_Sub ==
    last.op = "sub" =>
        LET a == last.pre.A
            b == last.val
        IN  /\ cpu.A = (a - b) % 256
            /\ cpu.F.n
            /\ cpu.F.c = (a < b)
            /\ cpu.F.h = ((a % 16) < (b % 16))

\* C8: add leaves A = (a + b) mod 256, zero set iff that is 0, negative
\* clear, carry set iff a + b > 255 and half-carry set iff
\* (a & 0xF) + (b & 0xF) > 0xF.
C8_Add ==
    last.op = "add" =>
        LET a == last.pre.A
            b == last.val
        IN  /\ cpu.A = (a + b) % 256
            /\ cpu.F.z = ((a + b) % 256 = 0)
            /\ ~cpu.F.n
            /\ cpu.F.c = (a + b > 255)
            /\ cpu.F.h = ((a % 16) + (b % 16) > 15)

\* 0x3C + 0x2E = 0x6A with half-carry, without carry, on a processor whose
\* flags were all set
C8_Witness ==
    /\ last.op = "add"
    /\ last.pre.A = 60 /\ last.val = 46 /\ last.pre.F = AllFlags
    /\ cpu.A = 106
    /\ cpu.F = [z |-> FALSE, n |-> FALSE, h |-> TRUE, c |-> FALSE]

\* C9: and leaves A = a AND v with half-carry true, or leaves A = a OR v with
\* half-carry false, xor leaves A = a XOR v with half-carry false; all three
\* set zero iff the result is 0 and clear negative and carry.
C9_Logic ==
    LET a == last.pre.A
        v == last.val
        common == cpu.F.z = (cpu.A = 0) /\ ~cpu.F.n /\ ~cpu.F.c
    IN  /\ last.op = "and" => (cpu.A = BitAnd(a, v) /\ cpu.F.h /\ common)
        /\ last.op = "or" => (cpu.A = BitOr(a, v) /\ ~cpu.F.h /\ common)
        /\ last.op = "xor" => (cpu.A = BitXor(a, v) /\ ~cpu.F.h /\ common)

\* C10: inc_r16 of BC, DE, HL or SP holding v leaves (v + 1) mod 65536 there,
\* dec_r16 leaves (v - 1) mod 65536, and neither changes a flag.
C10_IncDec16 ==
    LET v == getR16(last.pre, last.reg)
    IN  /\ (last.op = "inc_r16" /\ last.reg \in Pairs \cup {"SP"} /\ v \in Word) =>
              (getR16(cpu, last.reg) = (v + 1) % 65536 /\ cpu.F = last.pre.F)
        /\ (last.op = "dec_r16" /\ last.reg \in Pairs \cup {"SP"} /\ v \in Word) =>
              (getR16(cpu, last.reg) = (v - 1) % 65536 /\ cpu.F = last.pre.F)

\* packed BCD: each nibble is a decimal digit
IsBCD(x) == x \in Byte /\ x % 16 <= 9 /\ x \div 16 <= 9
FromBCD(x) == 10 * (x \div 16) + (x % 16)
ToBCD(d) == 16 * (d \div 10) + (d % 10)

\* C11: for packed-BCD bytes a and b, add(b) on accumulator a followed by daa
\* leaves A the packed BCD of (dec(a) + dec(b)) mod 100, carry set iff
\* dec(a) + dec(b) > 99, zero set iff A = 0, and half-carry clear.
C11_AddDaa ==
    (last.op = "daa" /\ last.prevOp = "add"
        /\ IsBCD(last.prevPre.A) /\ IsBCD(last.prevVal)) =>
        LET sum == FromBCD(last.prevPre.A) + FromBCD(last.prevVal)
        IN  /\ cpu.A = ToBCD(sum % 100)
            /\ cpu.F.c = (sum > 99)
            /\ cpu.F.z = (cpu.A = 0)
            /\ ~cpu.F.h

\* 0x99 + 0x99 adjusted to 0x98 with carry: both corrections of daa apply
C11_Witness ==
    /\ last.op = "daa" /\ last.prevOp = "add"
    /\ last.prevPre.A = 153 /\ last.prevVal = 153
    /\ last.pre.A = 50 /\ last.pre.F.h /\ last.pre.F.c
    /\ cpu.A = 152 /\ cpu.F.c /\ ~cpu.F.h /\ ~cpu.F.z

\* C12 as stated: rlc_A followed by rrc_A restores the accumulator and
\* restores the carry flag to its value before the two rotations.
C12_RotateRestoresCarry ==
    (last.op = "rrc_A" /\ last.prevOp = "rlc_A" /\ last.prevPre.A \in Byte) =>
        /\ cpu.A = last.prevPre.A
        /\ cpu.F.c = last.prevPre.F.c

\* C12, amended: rlc_A followed by rrc_A restores the accumulator and leaves
\* the carry flag equal to bit 7 of the accumulator, whatever the carry flag
\* was before the two rotations.
C12_RotateRoundTrip ==
    (last.op = "rrc_A" /\ last.prevOp = "rlc_A" /\ last.prevPre.A \in Byte) =>
        /\ cpu.A = last.prevPre.A
        /\ cpu.F.c = (last.prevPre.A >= 128)

\* 0x80 with carry clear: rlc_A sets carry, rrc_A brings 0x80 back and leaves
\* carry set
C12_Witness ==
    /\ last.op = "rrc_A" /\ last.prevOp = "rlc_A"
    /\ last.prevPre.A = 128 /\ ~last.prevPre.F.c
    /\ last.pre.F.c
    /\ cpu.A = 128 /\ cpu.F.c

====
